---------------------------- MODULE Spec2Model ----------------------------
(***************************************************************************)
(* NeuroLock: the template pipeline (create, hash, save, load, match) and  *)
(* the enroll / authenticate / delete commands that share the on-disk      *)
(* template store.                                                         *)
(*                                                                         *)
(* Representation.                                                         *)
(*  - A byte is a number in 0..255, a file or a buffer a sequence of bytes.*)
(*  - A C float is a fixed-point number: the integer m stands for the     *)
(*    value m / 2^FracBits.  Arithmetic rounds to that grid; fwrite and    *)
(*    fread of a float move its four IEEE-754 bytes (FloatBytes,           *)
(*    BytesFloat).                                                         *)
(*  - A size_t read from a file is kept exactly when it is below 2^24 and  *)
(*    is the token Huge otherwise.                                         *)
(*  - A raw recording (EEGData) is stood for by the band powers of its     *)
(*    first window; the spectral step itself is not unfolded here.         *)
(*                                                                         *)
(* Specifications.                                                         *)
(*   SpecStore  template_create, template_save, template_load in sequence  *)
(*   SpecMatch  calculate_similarity and template_authenticate             *)
(*   SpecSolo   the commands, one invocation at a time                     *)
(*   Spec       the commands run by concurrent processes                   *)
(*   SpecUnit   one call of a library function or of cmd_test on chosen    *)
(*              arguments                                                  *)
(*   SpecCapture the capture device calls and a trial's buffers, in any    *)
(*              order                                                      *)
(***************************************************************************)
EXTENDS Integers, Sequences, FiniteSets, TLC

(***************************************************************************)
(* Program constants (include/config.h) and the sizes of the C types the   *)
(* store writes (LP64).                                                    *)
(***************************************************************************)
FEATURE_VECTOR_SIZE == 40
NUM_ENROLMENT_TRIALS == 3
SALT_LENGTH == 32
HASH_OUTPUT_SIZE == 32
NUM_FREQUENCY_BANDS == 5
USERNAME_SIZE == 64
SIZEOF_UINT32 == 4
SIZEOF_ENUM == 4
SIZEOF_TIME_T == 8
SIZEOF_SIZE_T == 8
SIZEOF_FLOAT == 4

SAMPLING_RATE == 256
NUM_CHANNELS == 8
WINDOW_SIZE == 256

(***************************************************************************)
(* Bounds of the model.                                                    *)
(***************************************************************************)
FracBits == 4
MaxSignal == 2
MaxSeed == 1
MaxTime == 1
MaxUser == 1
MaxProc == 2
MaxBuffers == 3

One == 2 ^ FracBits
\* A size_t too large to be kept exactly.
Huge == 0 - 1
\* A null pointer, and a path at which no file exists.
NULL == [ptr |-> "null"]
NoFile == [exists |-> FALSE, data |-> <<>>]
\* A path holding a file with the bytes d.
File(d) == [exists |-> TRUE, data |-> d]

(***************************************************************************)
(* Sequences of bytes.                                                     *)
(***************************************************************************)
Min(a, b) == IF a < b THEN a ELSE b
Max(a, b) == IF a < b THEN b ELSE a

Zeros(n) == [i \in 1..n |-> 0]

\* The first n elements of s (all of s when it is shorter).
Take(s, n) == SubSeq(s, 1, Min(n, Len(s)))

\* buf with the bytes got written over its beginning (what a short fread
\* leaves of a calloc'ed buffer).
Overlay(buf, got) ==
    [i \in 1..Len(buf) |-> IF i <= Len(got) THEN got[i] ELSE buf[i]]

\* Little-endian encoding of n (0 <= n < 2^31) on w bytes.
LE(n, w) == [i \in 1..w |-> IF i <= 4 THEN (n \div (256 ^ (i - 1))) % 256 ELSE 0]

\* The number held by little-endian bytes: exact below 2^24, else Huge.
NumOfBytes(b) ==
    IF \A i \in 4..Len(b) : b[i] = 0
    THEN b[1] + 256 * b[2] + 65536 * b[3]
    ELSE Huge

\* The bytes of a number as NumOfBytes reads them (Huge: a size_t with
\* high bytes set).
BytesOfNum(n, w) == IF n = Huge THEN [i \in 1..w |-> 255] ELSE LE(n, w)

(***************************************************************************)
(* Floats.                                                                 *)
(***************************************************************************)
Abs(m) == IF m < 0 THEN -m ELSE m

\* Nearest integer to a / b (b > 0), halves away from zero.
RoundDiv(a, b) ==
    IF a >= 0 THEN (2 * a + b) \div (2 * b) ELSE -((2 * (-a) + b) \div (2 * b))

FMul(a, b) == RoundDiv(a * b, One)

RECURSIVE SqrtSearch(_, _, _)
SqrtSearch(n, lo, hi) ==
    IF lo >= hi THEN lo
    ELSE LET mid == (lo + hi + 1) \div 2
         IN  IF mid * mid <= n THEN SqrtSearch(n, mid, hi)
             ELSE SqrtSearch(n, lo, mid - 1)

\* floor(sqrt(n)).
ISqrt(n) == SqrtSearch(n, 0, Min(n, 46340))

\* sqrtf on the grid: nearest grid point to sqrt(m / One).
FSqrt(m) ==
    LET n == m * One
        r == ISqrt(n)
    IN  IF n - r * r > r THEN r + 1 ELSE r

RECURSIVE HiBit(_)
\* floor(log2(a)) for a >= 1.
HiBit(a) == IF a <= 1 THEN 0 ELSE 1 + HiBit(a \div 2)

\* The four bytes of the IEEE-754 single that holds m / One.
FloatBytes(m) ==
    IF m = 0 THEN <<0, 0, 0, 0>>
    ELSE LET a == Abs(m)
             p == HiBit(a)
             e == p - FracBits + 127
             mant == (a - 2 ^ p) * 2 ^ (23 - p)
             bits == e * 2 ^ 23 + mant
         IN  << bits % 256,
                (bits \div 256) % 256,
                (bits \div 65536) % 256,
                (bits \div 16777216) + (IF m < 0 THEN 128 ELSE 0) >>

\* The grid value of the IEEE-754 single in four bytes (toward zero when
\* the single lies between grid points; b is padded with zeros).
BytesFloat(b) ==
    LET e == (b[4] % 128) * 2 + (b[3] \div 128)
        mant == (b[3] % 128) * 65536 + b[2] * 256 + b[1]
        sig == 8388608 + mant
        sh == e - 150 + FracBits
        mag == IF e = 0 \/ sh < -24 THEN 0
               ELSE IF sh >= 0 THEN sig * 2 ^ sh
               ELSE sig \div 2 ^ (-sh)
    IN  IF b[4] >= 128 THEN -mag ELSE mag

\* The bytes of an array of floats, as fwrite puts them out.
FloatsBytes(v) ==
    [k \in 1..SIZEOF_FLOAT * Len(v) |->
        FloatBytes(v[((k - 1) \div SIZEOF_FLOAT) + 1])[((k - 1) % SIZEOF_FLOAT) + 1]]

\* n floats out of the bytes b (missing bytes read as the zeros calloc left).
BytesFloats(b, n) ==
    [j \in 1..n |->
        BytesFloat([k \in 1..SIZEOF_FLOAT |->
            IF SIZEOF_FLOAT * (j - 1) + k <= Len(b)
            THEN b[SIZEOF_FLOAT * (j - 1) + k] ELSE 0])]

(***************************************************************************)
(* C library pieces the store relies on.                                   *)
(***************************************************************************)
\* fread of n bytes at offset pos of file f: the bytes got (fewer at end of
\* file).  n = Huge asks for more than any file holds.
FRead(f, pos, n) ==
    IF pos >= Len(f) THEN <<>>
    ELSE SubSeq(f, pos + 1, IF n = Huge THEN Len(f) ELSE Min(pos + n, Len(f)))

\* fseek(fp, off, SEEK_CUR): a seek before the start of the file fails and
\* leaves the position where it was.
FSeekCur(pos, off) == IF pos + off < 0 THEN pos ELSE pos + off

\* strncpy into the char[64] of a calloc'ed Template, then the terminating
\* NUL at [63]: at most 63 characters are kept.
Strncpy(name) ==
    [i \in 1..USERNAME_SIZE |->
        IF i <= Len(name) /\ i <= USERNAME_SIZE - 1 THEN name[i] ELSE 0]

(***************************************************************************)
(* Recordings and feature extraction.                                      *)
(***************************************************************************)
Signals == 0..MaxSignal

\* The band powers extract_band_power leaves in the 40 slots for recording
\* sig: signal 0 is a recording too short for a window (all slots stay 0),
\* signal s >= 1 has its energy in band (s - 1) mod 5 of every channel.
BandPower(sig) ==
    [j \in 1..FEATURE_VECTOR_SIZE |->
        IF sig = 0 THEN 0
        ELSE IF (j - 1) % NUM_FREQUENCY_BANDS = (sig - 1) % NUM_FREQUENCY_BANDS
             THEN 8 * One ELSE One]

feature_vector_alloc(size) ==
    [features |-> Zeros(IF size = Huge THEN 0 ELSE size), size |-> size]

\* The task of a fresh feature vector, and the one main passes when no
\* --task option is given.
TASK_EYES_CLOSED_REST == 0

\* The preprocessing stages take the working copy of the recording and give
\* back a status and the copy. The three filters are placeholders: they leave
\* the copy as it is and return 0.
filter_bandpass(sig) == [ret |-> 0, data |-> sig]

filter_notch(sig) == [ret |-> 0, data |-> sig]

remove_eye_artifacts(sig) == [ret |-> 0, data |-> sig]

RECURSIVE SumSeq(_, _)
\* data[1] + ... + data[n].
SumSeq(data, n) == IF n = 0 THEN 0 ELSE SumSeq(data, n - 1) + data[n]

calculate_mean(data) ==
    IF Len(data) = 0 THEN 0 ELSE RoundDiv(SumSeq(data, Len(data)), Len(data))

calculate_std_dev(data) ==
    IF Len(data) = 0 THEN 0
    ELSE LET mean == calculate_mean(data)
             sq == [i \in 1..Len(data) |-> FMul(data[i] - mean, data[i] - mean)]
         IN  FSqrt(RoundDiv(SumSeq(sq, Len(data)), Len(data)))

\* The body of normalize_signal's loop for the samples of one channel: a
\* standard deviation below 1e-6 is replaced by 1, and every sample becomes
\* (x - mean) / std_dev.
normalize_channel(channel_data) ==
    LET mean == calculate_mean(channel_data)
        sd == calculate_std_dev(channel_data)
        std_dev == IF sd <= 0 \/ (sd < One /\ sd * 1000000 < One) THEN One ELSE sd
    IN  [samples |-> [i \in 1..Len(channel_data) |->
                         RoundDiv((channel_data[i] - mean) * One, std_dev)],
         divisor |-> std_dev]

\* normalize_signal: a recording is named by its normalised form, which
\* normalising again leaves alone.
normalize_signal(sig) == [ret |-> 0, data |-> sig]

\* The five bands in the order their slots are stored (delta, theta, alpha,
\* beta, gamma), with their edges in half hertz.
BandEdges ==
    << [low |-> 1, high |-> 8], [low |-> 8, high |-> 16], [low |-> 16, high |-> 26],
       [low |-> 26, high |-> 60], [low |-> 60, high |-> 200] >>

\* (size_t)(edge / freq_resolution) with freq_resolution = rate / WINDOW_SIZE:
\* the quotient cut to a whole number.
EdgeBin(edge, rate) == (edge * WINDOW_SIZE) \div (2 * rate)

RECURSIVE PowerSum(_, _, _)
\* The sum of fft_output[i] * fft_output[i] for the bins lo <= i < hi.
PowerSum(fft_output, lo, hi) ==
    IF lo >= hi THEN 0
    ELSE IF hi = lo + 1 THEN FMul(fft_output[lo + 1], fft_output[lo + 1])
    ELSE LET mid == (lo + hi) \div 2
         IN  PowerSum(fft_output, lo, mid) + PowerSum(fft_output, mid, hi)

\* One band loop of extract_band_power: the bins from the cut lower edge up
\* to the cut upper edge, and below fft_size.
band_power(fft_output, band, rate) ==
    PowerSum(fft_output, EdgeBin(BandEdges[band].low, rate),
             Min(EdgeBin(BandEdges[band].high, rate), WINDOW_SIZE \div 2))

\* extract_band_power(data, output): the slots of a channel are stored only
\* when the recording holds a full window; a shorter recording (sig = 0)
\* leaves output as it was and still returns 0.
extract_band_power(sig, output) ==
    IF sig = 0 THEN [ret |-> 0, out |-> output]
    ELSE [ret |-> 0, out |-> [output EXCEPT !.features = BandPower(sig)]]

\* The value of feature_idx when extract_band_power's channel loop ends:
\* five slots were stored for each channel of a recording with a full
\* window, at the indices below it, with no look at output->size.
feature_idx(num_channels, sig) ==
    IF sig = 0 THEN 0 ELSE NUM_FREQUENCY_BANDS * num_channels

\* extract_wavelet_features and hash_features_blake3 are not implemented
\* and say so; template_update is not implemented and returns 0.
extract_wavelet_features(sig, output) == [ret |-> -1, out |-> output]

hash_features_blake3(features, salt, output) == [ret |-> -1, out |-> output]

template_update(t, trial) == [ret |-> 0, out |-> t]

\* The statuses of the four preprocessing calls of extract_features, whose
\* results the caller does not look at.
Preprocess(sig) ==
    LET a == filter_bandpass(sig)
        b == filter_notch(a.data)
        c == remove_eye_artifacts(b.data)
        d == normalize_signal(c.data)
    IN  [bandpass |-> a.ret, notch |-> b.ret, artifacts |-> c.ret,
         normalize |-> d.ret, data |-> d.data]

\* extract_features(data, output): ok = FALSE is the one way it fails, an
\* allocation failure (every stage returns 0 otherwise).
extract_features(sig, output, ok) ==
    IF ok THEN extract_band_power(Preprocess(sig).data, output)
    ELSE [ret |-> -1, out |-> output]

\* extract_features with the clock stored into the first feature slot.
extract_features_stamped_into_slot(sig, task, output, ok, now) ==
    LET r == extract_features(sig, output, ok)
    IN  IF ok THEN [ret |-> r.ret,
                    out |-> [r.out EXCEPT !.features[1] = now * One],
                    task_type |-> task, timestamp |-> now]
        ELSE [ret |-> r.ret, out |-> r.out,
              task_type |-> TASK_EYES_CLOSED_REST, timestamp |-> 0]

\* extract_features together with the two fields it stamps on the output
\* after extraction: the task of the recording and the clock reading now.
\* A freshly allocated output has task TASK_EYES_CLOSED_REST and timestamp 0.
extract_features_stamped(sig, task, output, ok, now) ==
    LET r == extract_features(sig, output, ok)
    IN  IF ok THEN [ret |-> r.ret, out |-> r.out,
                    task_type |-> task, timestamp |-> now]
        ELSE [ret |-> r.ret, out |-> r.out,
              task_type |-> TASK_EYES_CLOSED_REST, timestamp |-> 0]

RECURSIVE SumAt(_, _, _)
\* sum over i of vectors[i].features[j], i from k up.
SumAt(vectors, j, k) ==
    IF k > Len(vectors) THEN 0
    ELSE vectors[k].features[j] + SumAt(vectors, j, k + 1)

\* average_feature_vectors finding a length mismatch only after it has
\* stored the first element.
average_feature_vectors_late_check(vectors, output) ==
    IF Len(vectors) = 0 THEN [ret |-> -1, out |-> output]
    ELSE IF \E i \in 2..Len(vectors) : vectors[i].size # vectors[1].size
    THEN [ret |-> -1,
          out |-> [output EXCEPT
                     !.features[1] = RoundDiv(SumAt(vectors, 1, 1), Len(vectors))]]
    ELSE [ret |-> 0,
          out |-> [features |->
                      [j \in 1..Len(output.features) |->
                          IF j <= vectors[1].size
                          THEN RoundDiv(SumAt(vectors, j, 1), Len(vectors))
                          ELSE output.features[j]],
                   size |-> vectors[1].size]]

RECURSIVE SumUpTo(_, _, _)
\* sum over slots lo..hi and over all vectors.
SumUpTo(vectors, lo, hi) ==
    IF lo > hi THEN 0
    ELSE IF lo = hi THEN SumAt(vectors, lo, 1)
    ELSE LET mid == (lo + hi) \div 2
         IN  SumUpTo(vectors, lo, mid) + SumUpTo(vectors, mid + 1, hi)

\* average_feature_vectors with sum not set back to zero for each element.
average_feature_vectors_running_sum(vectors, output) ==
    IF Len(vectors) = 0 \/ \E i \in 2..Len(vectors) : vectors[i].size # vectors[1].size
    THEN [ret |-> -1, out |-> output]
    ELSE [ret |-> 0,
          out |-> [features |->
                      [j \in 1..Len(output.features) |->
                          IF j <= vectors[1].size
                          THEN RoundDiv(SumUpTo(vectors, 1, j), Len(vectors))
                          ELSE output.features[j]],
                   size |-> vectors[1].size]]

average_feature_vectors(vectors, output) ==
    IF Len(vectors) = 0 \/ \E i \in 2..Len(vectors) : vectors[i].size # vectors[1].size
    THEN [ret |-> -1, out |-> output]
    ELSE LET size == vectors[1].size
         IN  [ret |-> 0,
              out |-> [features |->
                          [j \in 1..Len(output.features) |->
                              IF j <= size
                              THEN RoundDiv(SumAt(vectors, j, 1), Len(vectors))
                              ELSE output.features[j]],
                       size |-> size]]

(***************************************************************************)
(* Hashing.                                                                *)
(***************************************************************************)
\* The 32 bytes read from /dev/urandom on the call numbered seed.
Urandom(seed) == [i \in 1..SALT_LENGTH |-> (97 * seed + 13 * i + 5) % 256]

\* generate_salt: ok = FALSE when /dev/urandom cannot be opened or read.
generate_salt(salt, salt_size, seed, ok) ==
    IF salt_size = 0 \/ ~ok THEN [ret |-> -1, salt |-> salt]
    ELSE [ret |-> 0, salt |-> Overlay(salt, Take(Urandom(seed), salt_size))]

RECURSIVE Absorb(_, _, _)
\* Checksum of b[lo..hi], each byte weighted by its position.
Absorb(b, lo, hi) ==
    IF lo > hi THEN 0
    ELSE IF lo = hi THEN ((b[lo] + 1) * (lo * lo + 7 * lo + 1)) % 65521
    ELSE LET mid == (lo + hi) \div 2
         IN  (Absorb(b, lo, mid) + Absorb(b, mid + 1, hi)) % 65521

\* Stand-in for the library's SHA-256: a 32-byte digest that depends on
\* every byte of the input and on their order.
SHA256(b) ==
    LET s == (Absorb(b, 1, Len(b)) + 5381 * Len(b)) % 65521
    IN  [i \in 1..HASH_OUTPUT_SIZE |->
            (s * (2 * i + 1) + (s \div 256) * (i + 3) + i * i) % 256]

hash_data_alloc(hash_size, salt_size) ==
    [hash |-> Zeros(IF hash_size = Huge THEN 0 ELSE hash_size),
     hash_size |-> hash_size,
     salt |-> Zeros(IF salt_size = Huge THEN 0 ELSE salt_size),
     salt_size |-> salt_size]

\* hash_features_sha256 with the salt left out of the digest.
hash_features_sha256_unsalted(features, salt, salt_size, output, ok) ==
    IF ~ok THEN [ret |-> -1, out |-> output]
    ELSE [ret |-> 0,
          out |-> [hash |-> Overlay(output.hash,
                               SHA256(FloatsBytes(Take(features.features, features.size)))),
                   hash_size |-> HASH_OUTPUT_SIZE,
                   salt |-> Overlay(output.salt, Take(salt, salt_size)),
                   salt_size |-> salt_size]]

\* hash_features_sha256: digest over the feature bytes, then the salt;
\* ok = FALSE when an EVP call fails.
hash_features_sha256(features, salt, salt_size, output, ok) ==
    IF ~ok THEN [ret |-> -1, out |-> output]
    ELSE [ret |-> 0,
          out |-> [hash |-> Overlay(output.hash,
                               SHA256(FloatsBytes(Take(features.features, features.size))
                                      \o Take(salt, salt_size))),
                   hash_size |-> HASH_OUTPUT_SIZE,
                   salt |-> Overlay(output.salt, Take(salt, salt_size)),
                   salt_size |-> salt_size]]

hash_features(features, salt, salt_size, output, ok) ==
    hash_features_sha256(features, salt, salt_size, output, ok)

\* Bit i of a.
Bit(a, i) == (a \div 2 ^ i) % 2

RECURSIVE XorBits(_, _, _)
XorBits(a, b, i) ==
    IF i = 8 THEN 0
    ELSE ((Bit(a, i) + Bit(b, i)) % 2) * 2 ^ i + XorBits(a, b, i + 1)

\* a ^ b on bytes.
Xor(a, b) == XorBits(a, b, 0)

RECURSIVE OrBits(_, _, _)
OrBits(a, b, i) ==
    IF i = 8 THEN 0
    ELSE (IF Bit(a, i) + Bit(b, i) > 0 THEN 2 ^ i ELSE 0) + OrBits(a, b, i + 1)

\* a | b on values below 256.
Or(a, b) == OrBits(a, b, 0)

RECURSIVE XorAcc(_, _, _, _)
\* The OR of h1[i] ^ h2[i] over i in lo..hi.
XorAcc(h1, h2, lo, hi) ==
    IF lo > hi THEN 0
    ELSE IF lo = hi THEN Xor(h1[lo], h2[lo])
    ELSE LET mid == (lo + hi) \div 2
         IN  Or(XorAcc(h1, h2, lo, mid), XorAcc(h1, h2, mid + 1, hi))

\* The loop of hash_compare leaving at the first pair that differs.
CompareLoop_early_exit(h1, h2, n) ==
    LET d == {i \in 1..n : h1[i] # h2[i]}
    IN  IF d = {} THEN [result |-> 0, iters |-> n]
        ELSE LET k == CHOOSE i \in d : \A j \in d : i <= j
             IN  [result |-> Xor(h1[k], h2[k]), iters |-> k]

\* The loop of hash_compare over n pairs: result |= h1[i] ^ h2[i] for each
\* of them; iters counts the passes made.
CompareLoop(h1, h2, n) == [result |-> XorAcc(h1, h2, 1, n), iters |-> n]

\* hash_compare(hash1, hash2): 1 for equal, 0 for not equal.
hash_compare(hash1, hash2) ==
    IF hash1 = NULL \/ hash2 = NULL THEN [ret |-> 0, iters |-> 0]
    ELSE IF hash1.hash_size # hash2.hash_size THEN [ret |-> 0, iters |-> 0]
    ELSE LET r == CompareLoop(hash1.hash, hash2.hash, hash1.hash_size)
         IN  [ret |-> IF r.result = 0 THEN 1 ELSE 0, iters |-> r.iters]

(***************************************************************************)
(* Templates.                                                              *)
(***************************************************************************)
\* A pointer to a buffer that has been freed.
Dangling == [ptr |-> "dangling"]

\* template_alloc: calloc of one Template.
template_alloc ==
    [version |-> 0, username |-> Zeros(USERNAME_SIZE), task_type |-> 0,
     created_at |-> 0, last_used |-> 0, features |-> NULL, hash |-> NULL]

CreateFailures == {"none", "extract", "alloc_avg", "alloc_hash", "salt", "hash"}

\* template_create(username, trials, num_trials, task, output).  env.fail
\* names the call that fails (an allocation, /dev/urandom, the digest),
\* env.seed the bytes /dev/urandom gives, env.now the clock.  On the error
\* paths after line 52 output keeps pointers to buffers already freed.
template_create(username, trials, num_trials, task, output, env) ==
    LET ex == [i \in 1..num_trials |->
                  extract_features(trials[i],
                                   feature_vector_alloc(FEATURE_VECTOR_SIZE),
                                   env.fail # "extract")]
        fv == [i \in 1..num_trials |-> ex[i].out]
    IN  IF num_trials = 0 \/ \E i \in 1..num_trials : ex[i].ret # 0
        THEN [ret |-> -1, out |-> output]
        ELSE IF env.fail = "alloc_avg"
        THEN [ret |-> -1, out |-> [output EXCEPT !.features = NULL]]
        ELSE
        LET avg == average_feature_vectors(fv, feature_vector_alloc(FEATURE_VECTOR_SIZE))
        IN  IF avg.ret # 0
            THEN [ret |-> -1, out |-> [output EXCEPT !.features = Dangling]]
            ELSE IF env.fail = "alloc_hash"
            THEN [ret |-> -1,
                  out |-> [output EXCEPT !.features = Dangling, !.hash = NULL]]
            ELSE
            LET h0 == hash_data_alloc(HASH_OUTPUT_SIZE, SALT_LENGTH)
                gs == generate_salt(h0.salt, SALT_LENGTH, env.seed, env.fail # "salt")
                h1 == [h0 EXCEPT !.salt = gs.salt]
                hf == hash_features(avg.out, h1.salt, SALT_LENGTH, h1, env.fail # "hash")
            IN  IF gs.ret # 0 \/ hf.ret # 0
                THEN [ret |-> -1,
                      out |-> [output EXCEPT !.features = Dangling, !.hash = Dangling]]
                ELSE [ret |-> 0,
                      out |-> [version |-> 1,
                               username |-> Strncpy(username),
                               task_type |-> task,
                               created_at |-> env.now,
                               last_used |-> env.now,
                               features |-> avg.out,
                               hash |-> hf.out]]

\* template_free(template): the feature vector and the hash record are
\* freed when their pointers are not null.  twice names the ones freed here
\* that were freed before (the pointer is left over from an earlier free),
\* which the C library need not survive.
template_free(t) ==
    [freed |-> {f \in {"features", "hash"} : t[f] # NULL},
     twice |-> {f \in {"features", "hash"} : t[f] = Dangling}]

(***************************************************************************)
(* The template file.                                                      *)
(***************************************************************************)
\* The ten fwrite calls of template_save, in order: what they put into the
\* stream's buffer.
SaveBuffer(t) ==
    LE(t.version, SIZEOF_UINT32)
    \o t.username
    \o LE(t.task_type, SIZEOF_ENUM)
    \o LE(t.created_at, SIZEOF_TIME_T)
    \o LE(t.last_used, SIZEOF_TIME_T)
    \o BytesOfNum(t.features.size, SIZEOF_SIZE_T)
    \o FloatsBytes(Take(t.features.features, t.features.size))
    \o BytesOfNum(t.hash.hash_size, SIZEOF_SIZE_T)
    \o Take(t.hash.hash, t.hash.hash_size)
    \o BytesOfNum(t.hash.salt_size, SIZEOF_SIZE_T)
    \o Take(t.hash.salt, t.hash.salt_size)

\* fopen(filepath, "wb"): the file exists and is empty from here on.
SaveOpen(file) == File(<<>>)

\* old with the bytes got written at offset 0: what lay beyond them stays.
WriteOver(old, got) ==
    [i \in 1..Max(Len(old), Len(got)) |-> IF i <= Len(got) THEN got[i] ELSE old[i]]

\* fclose: the buffer goes to the file from offset 0; n bytes of it arrive
\* (fewer than all of them when the device is full; no return value is
\* looked at).
SaveFlush(t, file, n) == File(WriteOver(file.data, Take(SaveBuffer(t), n)))

\* template_save(template, filepath): env.open = FALSE when the directory
\* cannot be made or fopen fails, env.n the bytes that reach the file.
template_save(t, file, env) ==
    IF ~env.open THEN [ret |-> -1, file |-> file]
    ELSE [ret |-> 0, file |-> SaveFlush(t, SaveOpen(file), env.n)]

\* The offsets at which the four sections of a template's file end: the
\* metadata, the feature vector, the hash, the salt.
SectionEnds(t) ==
    LET meta == SIZEOF_UINT32 + USERNAME_SIZE + SIZEOF_ENUM + 2 * SIZEOF_TIME_T
        feat == meta + SIZEOF_SIZE_T + SIZEOF_FLOAT * t.features.size
        hash == feat + SIZEOF_SIZE_T + t.hash.hash_size
    IN  {meta, feat, hash, hash + SIZEOF_SIZE_T + t.hash.salt_size}

\* A buffer of the given size after a read of got into it: a Huge buffer
\* is kept as the bytes that were read into it.
Fill(buf, size, got) == IF size = Huge THEN got ELSE Overlay(buf, got)

\* The values the uninitialised locals feature_size, hash_size and
\* salt_size of template_load may hold, as bytes.
Garbage == {BytesOfNum(0, SIZEOF_SIZE_T), BytesOfNum(FEATURE_VECTOR_SIZE, SIZEOF_SIZE_T),
            BytesOfNum(Huge, SIZEOF_SIZE_T)}

LoadEnvs == [gf : Garbage, gh : Garbage,
             alloc : {"none", "features", "hash"}, far : BOOLEAN]

\* template_load(filepath, output).  No fread result is looked at and no
\* length is checked; env.gf and env.gh are what the uninitialised locals
\* hold, env.alloc names the allocation that fails, env.far says where the
\* seek by a Huge hash_size lands (past the end, or nowhere: it fails).
template_load(path, output, env) ==
    IF ~path.exists THEN [ret |-> -1, out |-> output]
    ELSE
    LET file == path.data
        r1 == FRead(file, 0, SIZEOF_UINT32)
        q1 == Len(r1)
        r2 == FRead(file, q1, USERNAME_SIZE)
        q2 == q1 + Len(r2)
        r3 == FRead(file, q2, SIZEOF_ENUM)
        q3 == q2 + Len(r3)
        r4 == FRead(file, q3, SIZEOF_TIME_T)
        q4 == q3 + Len(r4)
        r5 == FRead(file, q4, SIZEOF_TIME_T)
        q5 == q4 + Len(r5)
        meta == [output EXCEPT
                    !.version = NumOfBytes(Overlay(BytesOfNum(output.version, SIZEOF_UINT32), r1)),
                    !.username = Overlay(output.username, r2),
                    !.task_type = NumOfBytes(Overlay(BytesOfNum(output.task_type, SIZEOF_ENUM), r3)),
                    !.created_at = NumOfBytes(Overlay(BytesOfNum(output.created_at, SIZEOF_TIME_T), r4)),
                    !.last_used = NumOfBytes(Overlay(BytesOfNum(output.last_used, SIZEOF_TIME_T), r5))]
        r6 == FRead(file, q5, SIZEOF_SIZE_T)
        q6 == q5 + Len(r6)
        feature_size == NumOfBytes(Overlay(env.gf, r6))
    IN  IF env.alloc = "features"
        THEN [ret |-> -1, out |-> [meta EXCEPT !.features = NULL]]
        ELSE
        LET r7 == FRead(file, q6, IF feature_size = Huge THEN Huge
                                  ELSE SIZEOF_FLOAT * feature_size)
            q7 == q6 + Len(r7)
            fv == [features |-> BytesFloats(r7, IF feature_size = Huge
                                                THEN (Len(r7) + SIZEOF_FLOAT - 1) \div SIZEOF_FLOAT
                                                ELSE feature_size),
                   size |-> feature_size]
            r8 == FRead(file, q7, SIZEOF_SIZE_T)
            q8 == q7 + Len(r8)
            hash_size == NumOfBytes(Overlay(env.gh, r8))
            r9 == FRead(file, q8, SIZEOF_SIZE_T)
            q9 == q8 + Len(r9)
            salt_size == NumOfBytes(Overlay(env.gh, r9))
        IN  IF env.alloc = "hash"
            THEN [ret |-> -1, out |-> [meta EXCEPT !.features = Dangling, !.hash = NULL]]
            ELSE
            LET h0 == hash_data_alloc(hash_size, salt_size)
                s1 == FSeekCur(q9, -SIZEOF_SIZE_T)
                r10 == FRead(file, s1, SIZEOF_SIZE_T)
                q10 == s1 + Len(r10)
                salt_size2 == NumOfBytes(Overlay(BytesOfNum(salt_size, SIZEOF_SIZE_T), r10))
                s2 == IF hash_size = Huge
                      THEN (IF env.far THEN Max(q10, Len(file)) ELSE q10)
                      ELSE FSeekCur(q10, -(SIZEOF_SIZE_T * 2 + hash_size))
                r11 == FRead(file, s2, hash_size)
                q11 == s2 + Len(r11)
                s3 == FSeekCur(q11, SIZEOF_SIZE_T)
                r12 == FRead(file, s3, salt_size)
            IN  [ret |-> 0,
                 out |-> [meta EXCEPT
                            !.features = fv,
                            !.hash = [hash |-> Fill(h0.hash, hash_size, r11),
                                      hash_size |-> hash_size,
                                      salt |-> Fill(h0.salt, salt_size, r12),
                                      salt_size |-> salt_size2]]]

(***************************************************************************)
(* Matching.                                                               *)
(***************************************************************************)
RECURSIVE DotAt(_, _, _, _)
\* sum of v[i] * w[i] for i in lo..hi.
DotAt(v, w, lo, hi) ==
    IF lo > hi THEN 0
    ELSE IF lo = hi THEN FMul(v[lo], w[lo])
    ELSE LET mid == (lo + hi) \div 2
         IN  DotAt(v, w, lo, mid) + DotAt(v, w, mid + 1, hi)

dot_product(vec1, vec2, size) == DotAt(vec1, vec2, 1, size)

vector_magnitude(vec, size) == FSqrt(DotAt(vec, vec, 1, size))

\* mag < 1e-6f
Tiny(mag) == mag <= 0 \/ (mag < One /\ mag * 1000000 < One)

\* The failure value of calculate_similarity, -1.0f.
SimFailed == -One

\* The clamp without its upper bound.
Clamp01_lower_only(x) == IF x < 0 THEN 0 ELSE x

Clamp01(x) == IF x < 0 THEN 0 ELSE IF x > One THEN One ELSE x

calculate_similarity(vec1, vec2) ==
    IF vec1 = NULL \/ vec2 = NULL THEN SimFailed
    ELSE IF vec1.size # vec2.size THEN SimFailed
    ELSE LET dot == dot_product(vec1.features, vec2.features, vec1.size)
             mag1 == vector_magnitude(vec1.features, vec1.size)
             mag2 == vector_magnitude(vec2.features, vec2.size)
         IN  IF Tiny(mag1) \/ Tiny(mag2) THEN SimFailed
             ELSE Clamp01(RoundDiv(dot * One * One, mag1 * mag2))

\* The threshold test turned round.
AtLeastThreshold_reversed(similarity) == 20 * similarity <= 17 * One

\* similarity >= SIMILARITY_THRESHOLD, the float against the double 0.85.
AtLeastThreshold(similarity) == 20 * similarity >= 17 * One

\* The AuthResult on cmd_authenticate's stack before the call.
NoResult == [authenticated |-> 0, similarity_score |-> 0, timestamp |-> 0, attempts |-> 0]

AuthFailures == {"none", "alloc", "extract"}

\* template_authenticate deciding by the seal: accepted only when the stored
\* digest is the digest of the stored features and salt.
template_authenticate_by_hash(trial, template, result, env) ==
    IF template = NULL \/ env.fail = "alloc" THEN [ret |-> -1, result |-> result]
    ELSE
    LET ex == extract_features(trial, feature_vector_alloc(FEATURE_VECTOR_SIZE),
                               env.fail # "extract")
    IN  IF ex.ret # 0 THEN [ret |-> -1, result |-> result]
        ELSE LET similarity == calculate_similarity(ex.out, template.features)
                 sealed == template.hash.hash =
                             SHA256(FloatsBytes(Take(template.features.features,
                                                     template.features.size))
                                    \o template.hash.salt)
             IN  [ret |-> 0,
                  result |-> [authenticated |-> IF AtLeastThreshold(similarity) /\ sealed
                                                THEN 1 ELSE 0,
                              similarity_score |-> similarity,
                              timestamp |-> env.now,
                              attempts |-> 1]]

\* template_authenticate(trial, template, result): env.fail names the call
\* that fails, env.now is the clock.
template_authenticate(trial, template, result, env) ==
    IF template = NULL \/ env.fail = "alloc" THEN [ret |-> -1, result |-> result]
    ELSE
    LET ex == extract_features(trial, feature_vector_alloc(FEATURE_VECTOR_SIZE),
                               env.fail # "extract")
    IN  IF ex.ret # 0 THEN [ret |-> -1, result |-> result]
        ELSE LET similarity == calculate_similarity(ex.out, template.features)
             IN  [ret |-> 0,
                  result |-> [authenticated |-> IF AtLeastThreshold(similarity) THEN 1 ELSE 0,
                              similarity_score |-> similarity,
                              timestamp |-> env.now,
                              attempts |-> 1]]

(***************************************************************************)
(* State.                                                                  *)
(*   store  one run of create, save, load on one template                  *)
(*   match  one run of the matcher on chosen vectors and templates         *)
(*   fs     the template directory: user -> file contents or NoFile        *)
(*   procs  the command each process invocation is running, and where      *)
(*   calls  one run of a library function on chosen arguments              *)
(***************************************************************************)
VARIABLES store, match, fs, procs, calls

vars == <<store, match, fs, procs, calls>>

Users == 1..MaxUser
Procs == 1..MaxProc
Seeds == 0..MaxSeed
Times == 1..MaxTime
Tasks == {0, 4}

\* The username of user u: "a", "b", ...
UserName(u) == <<96 + u>>

StoreInit == [stage |-> "start", in |-> NULL, create |-> NULL, file |-> NoFile,
              env |-> NULL, load |-> NULL]
MatchInit == [stage |-> "start"]
FsInit == [u \in Users |-> NoFile]
ProcInit == [pc |-> "idle"]
CallInit == [stage |-> "start"]

Init ==
    /\ store = StoreInit
    /\ match = MatchInit
    /\ fs = FsInit
    /\ procs = [p \in Procs |-> ProcInit]
    /\ calls = CallInit

(***************************************************************************)
(* SpecStore: template_create, then template_save, then template_load.     *)
(***************************************************************************)
StoreCreate ==
    /\ store.stage = "start"
    /\ \E a \in Signals, b \in Signals, task \in Tasks,
          seed \in Seeds, now \in Times, fail \in CreateFailures :
          LET in == [username |-> UserName(1), trials |-> <<a, b, b>>, task |-> task,
                     seed |-> seed, now |-> now, fail |-> fail]
          IN  store' = [store EXCEPT
                          !.stage = "created",
                          !.in = in,
                          !.create = template_create(in.username, in.trials,
                                         NUM_ENROLMENT_TRIALS, task, template_alloc,
                                         [fail |-> fail, seed |-> seed, now |-> now])]
    /\ UNCHANGED <<match, fs, procs, calls>>

\* The byte counts a flush may get onto the device: all of the buffer, or
\* a short write ending at a section or inside the feature values.
WriteLengths(t) == {0} \cup SectionEnds(t) \cup {SIZEOF_UINT32 + USERNAME_SIZE + 50}

StoreSave ==
    /\ store.stage = "created"
    /\ store.create.ret = 0
    /\ \E open \in BOOLEAN, n \in WriteLengths(store.create.out) :
          LET r == template_save(store.create.out, store.file, [open |-> open, n |-> n])
          IN  store' = [store EXCEPT !.stage = "saved", !.file = r.file]
    /\ UNCHANGED <<match, fs, procs, calls>>

StoreLoad ==
    /\ store.stage = "saved"
    /\ \E env \in LoadEnvs :
          store' = [store EXCEPT !.stage = "loaded",
                                 !.env = env,
                                 !.load = template_load(store.file, template_alloc, env)]
    /\ UNCHANGED <<match, fs, procs, calls>>

StoreNext == StoreCreate \/ StoreSave \/ StoreLoad

SpecStore == Init /\ [][StoreNext]_vars

(***************************************************************************)
(* SpecMatch: calculate_similarity on two vectors, template_authenticate   *)
(* of one trial against two templates that hold the same features.         *)
(***************************************************************************)
FeaturesOf(sig) == [features |-> BandPower(sig), size |-> FEATURE_VECTOR_SIZE]

Scaled(v, k) == [j \in 1..Len(v) |-> k * v[j]]

\* Vectors a matcher can be handed: band powers, their negations, vectors
\* of another length, enrolment averages, and weak recordings with two
\* small equal powers.
MatchVectors ==
    { [features |-> [j \in 1..n |-> IF j <= 2 THEN a ELSE 0], size |-> n] :
          a \in 1..(One \div 2), n \in {FEATURE_VECTOR_SIZE, NUM_FREQUENCY_BANDS} }
    \cup
    { [features |-> Scaled(Take(BandPower(sig), n), k), size |-> n] :
          sig \in Signals, n \in {FEATURE_VECTOR_SIZE, NUM_FREQUENCY_BANDS}, k \in {-1, 1} }
    \cup
    { average_feature_vectors(<<FeaturesOf(a), FeaturesOf(b), FeaturesOf(b)>>,
                              feature_vector_alloc(FEATURE_VECTOR_SIZE)).out :
          a \in Signals, b \in Signals }

\* Seals a stored template can carry: the digest and salt of an enrolment
\* with each seed, and the same with the salt replaced.
MatchHashes(v) ==
    { hash_features(v, Urandom(seed), SALT_LENGTH,
                    hash_data_alloc(HASH_OUTPUT_SIZE, SALT_LENGTH), TRUE).out :
          seed \in Seeds }
    \cup
    { [hash_features(v, Urandom(0), SALT_LENGTH,
                     hash_data_alloc(HASH_OUTPUT_SIZE, SALT_LENGTH), TRUE).out
          EXCEPT !.salt = Zeros(SALT_LENGTH)] }

MatchSimilarity ==
    /\ match.stage = "start"
    /\ \E v1 \in MatchVectors, v2 \in MatchVectors :
          match' = [stage |-> "sim", vec1 |-> v1, vec2 |-> v2,
                    sim |-> calculate_similarity(v1, v2)]
    /\ UNCHANGED <<store, fs, procs, calls>>

MatchAuthenticate ==
    /\ match.stage = "start"
    /\ \E trial \in Signals, v \in MatchVectors, fail \in AuthFailures, now \in Times :
       \E h1 \in MatchHashes(v), h2 \in MatchHashes(v) :
          LET t1 == [template_alloc EXCEPT !.version = 1, !.features = v, !.hash = h1]
              t2 == [t1 EXCEPT !.hash = h2]
              env == [fail |-> fail, now |-> now]
          IN  match' = [stage |-> "auth", trial |-> trial, t1 |-> t1, t2 |-> t2,
                        env |-> env,
                        r1 |-> template_authenticate(trial, t1, NoResult, env),
                        r2 |-> template_authenticate(trial, t2, NoResult, env)]
    /\ UNCHANGED <<store, fs, procs, calls>>

MatchNext == MatchSimilarity \/ MatchAuthenticate

SpecMatch == Init /\ [][MatchNext]_vars

(***************************************************************************)
(* Spec: processes running enroll, authenticate and delete on the shared   *)
(* template directory.  A process steps at each access to the directory;   *)
(* nothing orders the steps of different processes (the code takes no      *)
(* lock).  procs[p].fp tells whether the file p opened for writing is      *)
(* still the one at the path ("open") or has been removed ("unlinked").    *)
(***************************************************************************)
Commands == {"enroll", "authenticate", "delete"}

\* template_exists(username).
template_exists(dir, u) == dir[u].exists

\* The record of a command that has returned ret.
Finish(rec, ret, outcome) ==
    [pc |-> "done", cmd |-> rec.cmd, user |-> rec.user, ret |-> ret, outcome |-> outcome]

At(p, cmd, pc) == procs[p].pc = pc /\ procs[p].cmd = cmd

\* main: a new invocation with a command and a username, and the default
\* task.
Invoke(p) ==
    /\ procs[p].pc = "idle"
    /\ \E cmd \in Commands, u \in Users :
          procs' = [procs EXCEPT ![p] = [pc |-> "check", cmd |-> cmd, user |-> u,
                                         task |-> TASK_EYES_CLOSED_REST]]
    /\ UNCHANGED <<store, match, fs, calls>>

\* The process exits with the value its command returned.
Return(p) ==
    /\ procs[p].pc \in {"done", "crashed"}
    /\ procs' = [procs EXCEPT ![p] = ProcInit]
    /\ UNCHANGED <<store, match, fs, calls>>

\* cmd_enroll going on to the capture without looking for a template.
EnrollCheck_unchecked(p) ==
    /\ At(p, "enroll", "check")
    /\ procs' = [procs EXCEPT ![p] = [procs[p] EXCEPT !.pc = "capture"]]
    /\ UNCHANGED <<store, match, fs, calls>>

\* cmd_enroll: the template_exists check.
EnrollCheck(p) ==
    /\ At(p, "enroll", "check")
    /\ procs' = [procs EXCEPT ![p] =
                   IF template_exists(fs, procs[p].user)
                   THEN Finish(procs[p], -1, "exists")
                   ELSE [procs[p] EXCEPT !.pc = "capture"]]
    /\ UNCHANGED <<store, match, fs, calls>>

\* cmd_enroll: capture_init to the end of the trial loop.
EnrollCapture(p) ==
    /\ At(p, "enroll", "capture")
    /\ \E ok \in BOOLEAN, sig \in Signals \ {0} :
          procs' = [procs EXCEPT ![p] =
                      IF ~ok THEN Finish(procs[p], -1, "capture_failed")
                      ELSE [pc |-> "create", cmd |-> "enroll", user |-> procs[p].user,
                            task |-> procs[p].task, trials |-> <<sig, sig, sig>>]]
    /\ UNCHANGED <<store, match, fs, calls>>

\* cmd_enroll going on to template_save whatever template_create returned.
EnrollCreate_status_ignored(p) ==
    /\ At(p, "enroll", "create")
    /\ \E fail \in CreateFailures, seed \in Seeds, now \in Times :
          procs' = [procs EXCEPT ![p] =
                      [pc |-> "save", cmd |-> "enroll", user |-> procs[p].user,
                       template |-> template_create(
                                        UserName(procs[p].user), procs[p].trials,
                                        NUM_ENROLMENT_TRIALS, procs[p].task, template_alloc,
                                        [fail |-> fail, seed |-> seed, now |-> now]).out]]
    /\ UNCHANGED <<store, match, fs, calls>>

\* cmd_enroll: template_alloc, template_create and, when that failed, the
\* template_free of the error path, which the process survives or not when
\* it frees a buffer again.
EnrollCreate(p) ==
    /\ At(p, "enroll", "create")
    /\ \E fail \in CreateFailures, seed \in Seeds, now \in Times :
          LET r == template_create(UserName(procs[p].user), procs[p].trials,
                                   NUM_ENROLMENT_TRIALS, procs[p].task, template_alloc,
                                   [fail |-> fail, seed |-> seed, now |-> now])
          IN  \E survives \in BOOLEAN :
              procs' = [procs EXCEPT ![p] =
                          IF r.ret # 0
                          THEN IF template_free(r.out).twice # {} /\ ~survives
                               THEN [pc |-> "crashed", cmd |-> "enroll",
                                     user |-> procs[p].user]
                               ELSE Finish(procs[p], -1, "create_failed")
                          ELSE [pc |-> "save", cmd |-> "enroll", user |-> procs[p].user,
                                template |-> r.out]]
    /\ UNCHANGED <<store, match, fs, calls>>

\* template_save up to fopen(filepath, "wb").
EnrollOpen(p) ==
    /\ At(p, "enroll", "save")
    /\ \E open \in BOOLEAN :
          IF open
          THEN /\ fs' = [fs EXCEPT ![procs[p].user] = SaveOpen(@)]
               /\ procs' = [procs EXCEPT ![p] = [pc |-> "write", cmd |-> "enroll",
                                                 user |-> procs[p].user,
                                                 template |-> procs[p].template,
                                                 fp |-> "open"]]
          ELSE /\ procs' = [procs EXCEPT ![p] = Finish(procs[p], -1, "save_failed")]
               /\ UNCHANGED fs
    /\ UNCHANGED <<store, match, calls>>

\* The byte counts the flush of a save may get onto the device here.
FlushLengths(t) == {SIZEOF_UINT32 + USERNAME_SIZE + 50, Len(SaveBuffer(t))}

\* template_save from the fwrite calls to return 0: the buffer is flushed
\* at fclose, to the file that was opened.
EnrollWrite(p) ==
    /\ At(p, "enroll", "write")
    /\ \E n \in FlushLengths(procs[p].template) :
          fs' = IF procs[p].fp = "open"
                THEN [fs EXCEPT ![procs[p].user] = SaveFlush(procs[p].template, @, n)]
                ELSE fs
    /\ procs' = [procs EXCEPT ![p] = Finish(procs[p], 0, "enrolled")]
    /\ UNCHANGED <<store, match, calls>>

\* The process dies between fopen and fclose of template_save: what the
\* stream had buffered is lost.
EnrollCrash(p) ==
    /\ At(p, "enroll", "write")
    /\ procs' = [procs EXCEPT ![p] = [pc |-> "crashed", cmd |-> "enroll",
                                      user |-> procs[p].user]]
    /\ UNCHANGED <<store, match, fs, calls>>

\* cmd_authenticate: the template_exists check.
AuthCheck(p) ==
    /\ At(p, "authenticate", "check")
    /\ procs' = [procs EXCEPT ![p] =
                   IF ~template_exists(fs, procs[p].user)
                   THEN Finish(procs[p], -1, "not_enrolled")
                   ELSE [pc |-> "load", cmd |-> "authenticate", user |-> procs[p].user]]
    /\ UNCHANGED <<store, match, fs, calls>>

\* The processes that are between fopen and fclose of template_save on the
\* file at the path of user u.
Writers(u) == {q \in Procs : procs[q].pc = "write" /\ procs[q].user = u
                             /\ procs[q].fp = "open"}

\* cmd_authenticate after template_load returned r: racing records who was
\* inside template_save on the same file when it was read.
AuthLoaded(rec, r, racing) ==
    IF r.ret # 0 THEN Finish(rec, -1, "load_failed")
    ELSE [pc |-> "capture", cmd |-> "authenticate", user |-> rec.user,
          template |-> r.out, racing |-> racing]

\* cmd_authenticate: template_alloc and template_load.
AuthLoad(p) ==
    /\ At(p, "authenticate", "load")
    /\ \E env \in LoadEnvs :
          procs' = [procs EXCEPT ![p] =
                      AuthLoaded(procs[p],
                                 template_load(fs[procs[p].user], template_alloc, env),
                                 Writers(procs[p].user))]
    /\ UNCHANGED <<store, match, fs, calls>>

\* cmd_authenticate: capture_init to capture_record.
AuthCapture(p) ==
    /\ At(p, "authenticate", "capture")
    /\ \E ok \in BOOLEAN, sig \in Signals \ {0} :
          procs' = [procs EXCEPT ![p] =
                      IF ~ok THEN Finish(procs[p], -1, "capture_failed")
                      ELSE [pc |-> "match", cmd |-> "authenticate",
                            user |-> procs[p].user, template |-> procs[p].template,
                            racing |-> procs[p].racing, trial |-> sig]]
    /\ UNCHANGED <<store, match, fs, calls>>

\* cmd_authenticate after template_authenticate returned r: the value the
\* command returns.
AuthDecided(rec, r) ==
    IF r.ret # 0 THEN Finish(rec, -1, "auth_failed")
    ELSE IF r.result.authenticated # 0 THEN Finish(rec, 0, "accepted")
    ELSE Finish(rec, -1, "rejected")

\* cmd_authenticate stamping the time of the attempt into the last_used
\* field of the stored file.
AuthMatch_stamping_file(p) ==
    /\ At(p, "authenticate", "match")
    /\ \E fail \in AuthFailures, now \in Times :
          procs' = [procs EXCEPT ![p] =
                      AuthDecided(procs[p],
                                  template_authenticate(procs[p].trial, procs[p].template,
                                                        NoResult,
                                                        [fail |-> fail, now |-> now]))]
    /\ fs' = [fs EXCEPT ![procs[p].user] =
                 [@ EXCEPT !.data =
                     [i \in 1..Len(@) |->
                         IF i = SIZEOF_UINT32 + USERNAME_SIZE + SIZEOF_ENUM + SIZEOF_TIME_T + 1
                         THEN (@[i] + 1) % 256 ELSE @[i]]]]
    /\ UNCHANGED <<store, match, calls>>

\* cmd_authenticate: template_authenticate and the return value.
AuthMatch(p) ==
    /\ At(p, "authenticate", "match")
    /\ \E fail \in AuthFailures, now \in Times :
          procs' = [procs EXCEPT ![p] =
                      AuthDecided(procs[p],
                                  template_authenticate(procs[p].trial, procs[p].template,
                                                        NoResult,
                                                        [fail |-> fail, now |-> now]))]
    /\ UNCHANGED <<store, match, fs, calls>>

\* cmd_delete: the template_exists check.
DeleteCheck(p) ==
    /\ At(p, "delete", "check")
    /\ procs' = [procs EXCEPT ![p] =
                   IF ~template_exists(fs, procs[p].user)
                   THEN Finish(procs[p], -1, "not_enrolled")
                   ELSE [pc |-> "confirm", cmd |-> "delete", user |-> procs[p].user]]
    /\ UNCHANGED <<store, match, fs, calls>>

\* template_delete(username): remove() of the path.
template_delete(dir, u) ==
    IF dir[u].exists THEN [ret |-> 0, dir |-> [dir EXCEPT ![u] = NoFile]]
    ELSE [ret |-> -1, dir |-> dir]

\* cmd_delete: the answer to the prompt, and template_delete on "yes".  A
\* file removed while a save has it open is written to no more at the path.
DeleteConfirm(p) ==
    /\ At(p, "delete", "confirm")
    /\ \E answer \in {"yes", "no", "none"} :
          LET u == procs[p].user
              r == template_delete(fs, u)
          IN  IF answer = "yes"
              THEN /\ fs' = r.dir
                   /\ procs' = [q \in Procs |->
                                  IF q = p
                                  THEN Finish(procs[p], r.ret,
                                              IF r.ret = 0 THEN "deleted" ELSE "delete_failed")
                                  ELSE IF q \in Writers(u) /\ r.ret = 0
                                  THEN [procs[q] EXCEPT !.fp = "unlinked"]
                                  ELSE procs[q]]
              ELSE /\ procs' = [procs EXCEPT ![p] =
                                  IF answer = "no" THEN Finish(procs[p], 0, "cancelled")
                                  ELSE Finish(procs[p], -1, "no_input")]
                   /\ UNCHANGED fs
    /\ UNCHANGED <<store, match, calls>>

Step(p) ==
    \/ Invoke(p)
    \/ Return(p)
    \/ EnrollCheck(p)
    \/ EnrollCapture(p)
    \/ EnrollCreate(p)
    \/ EnrollOpen(p)
    \/ EnrollWrite(p)
    \/ EnrollCrash(p)
    \/ AuthCheck(p)
    \/ AuthLoad(p)
    \/ AuthCapture(p)
    \/ AuthMatch(p)
    \/ DeleteCheck(p)
    \/ DeleteConfirm(p)

Next == \E p \in Procs : Step(p)

Spec == Init /\ [][Next]_vars

\* One process at a time: each invocation ends before the next begins.
SoloNext == Step(1)

SpecSolo == Init /\ [][SoloNext]_vars

(***************************************************************************)
(* SpecUnit: one call of a library function on chosen arguments.           *)
(***************************************************************************)
\* A HashData holding the digest h.
HashOf(h) == [hash |-> h, hash_size |-> Len(h), salt |-> Zeros(SALT_LENGTH),
              salt_size |-> SALT_LENGTH]

\* h with bit k of byte i turned over.
FlipBit(h, i, k) == [h EXCEPT ![i] = Xor(@, 2 ^ k)]

\* Digests to compare: two digests of enrolments, each with one bit turned
\* over anywhere, and their first halves.
CompareHashes ==
    LET base == {SHA256(FloatsBytes(BandPower(sig)) \o Urandom(0)) : sig \in {1, 2}}
    IN  {HashOf(h) : h \in base}
        \cup {HashOf(FlipBit(h, i, k)) : h \in base, i \in 1..HASH_OUTPUT_SIZE, k \in {0, 7}}
        \cup {HashOf(Take(h, HASH_OUTPUT_SIZE \div 2)) : h \in base}

CompareRun ==
    /\ calls.stage = "start"
    /\ \E h1 \in {HashOf(SHA256(FloatsBytes(BandPower(1)) \o Urandom(0)))},
          h2 \in CompareHashes \cup {NULL} :
          calls' = [stage |-> "compare", hash1 |-> h1, hash2 |-> h2,
                    r |-> hash_compare(h1, h2)]
    /\ UNCHANGED <<store, match, fs, procs>>

\* Vectors to average: band powers of a recording, and the five values of
\* its first channel.
AverageVectors ==
    {FeaturesOf(sig) : sig \in Signals}
    \cup {[features |-> Take(BandPower(sig), NUM_FREQUENCY_BANDS),
           size |-> NUM_FREQUENCY_BANDS] : sig \in Signals}

\* Sequences of at most NUM_ENROLMENT_TRIALS of them.
AverageInputs ==
    UNION {[1..n -> AverageVectors] : n \in 0..NUM_ENROLMENT_TRIALS}

\* The output vector handed in: fresh, or holding earlier values.
AverageOutputs ==
    {feature_vector_alloc(FEATURE_VECTOR_SIZE),
     [features |-> [j \in 1..FEATURE_VECTOR_SIZE |-> 3 * One], size |-> FEATURE_VECTOR_SIZE]}

AverageRun ==
    /\ calls.stage = "start"
    /\ \E vectors \in AverageInputs, output \in AverageOutputs :
          calls' = [stage |-> "average", vectors |-> vectors, output |-> output,
                    r |-> average_feature_vectors(vectors, output)]
    /\ UNCHANGED <<store, match, fs, procs>>

\* Readings of the clock.
Clocks == 1..(MaxTime + 1)

\* extract_features called twice on one recording, each time with a fresh
\* output vector, after an earlier call on some other recording, at clock
\* readings that need not be the same. The statuses of the stages of the
\* first call and of the stages no caller reaches are kept.
ExtractRun ==
    /\ calls.stage = "start"
    /\ \E sig \in Signals, earlier \in Signals, task \in Tasks,
          ok1 \in BOOLEAN, ok2 \in BOOLEAN, now0 \in Clocks, now1 \in Clocks, now2 \in Clocks :
          /\ now0 <= now1
          /\ now1 <= now2
          /\ calls' = [stage |-> "extract", sig |-> sig, task |-> task,
                       before |-> extract_features_stamped(
                                      earlier, task,
                                      feature_vector_alloc(FEATURE_VECTOR_SIZE), TRUE, now0),
                       first |-> extract_features_stamped(
                                      sig, task,
                                      feature_vector_alloc(FEATURE_VECTOR_SIZE), ok1, now1),
                       second |-> extract_features_stamped(
                                      sig, task,
                                      feature_vector_alloc(FEATURE_VECTOR_SIZE), ok2, now2),
                       ok |-> ok1,
                       stages |-> [bandpass |-> Preprocess(sig).bandpass,
                                   notch |-> Preprocess(sig).notch,
                                   artifacts |-> Preprocess(sig).artifacts,
                                   wavelet |-> extract_wavelet_features(
                                                  sig, feature_vector_alloc(FEATURE_VECTOR_SIZE)).ret,
                                   blake3 |-> hash_features_blake3(
                                                  FeaturesOf(sig), Urandom(0),
                                                  hash_data_alloc(HASH_OUTPUT_SIZE, SALT_LENGTH)).ret,
                                   update |-> template_update(NULL, sig).ret]]
    /\ UNCHANGED <<store, match, fs, procs>>

\* The C libraries secure_wipe is compiled for: the Windows branch, glibc,
\* and any other, which has no second wipe.
Platforms == {"win32", "glibc", "other"}

\* secure_wipe(ptr, size) in the memory mem, the buffer being the size bytes
\* after offset ptr.  The loop while (size--) stores a zero in each of them
\* and leaves size one below zero, which for a size_t is its largest value
\* (Huge); on win32 and glibc that value is the length of the second wipe,
\* which runs over the bytes after the buffer up to byte reach, where the
\* process dies.  second is the length of the second wipe, NULL when there
\* is none.
secure_wipe_bytes(mem, ptr, size, platform, reach) ==
    IF size = 0 THEN [mem |-> mem, second |-> NULL, crashed |-> FALSE]
    ELSE LET looped == [i \in 1..Len(mem) |->
                           IF ptr < i /\ i <= ptr + size THEN 0 ELSE mem[i]]
         IN  IF platform = "other"
             THEN [mem |-> looped, second |-> NULL, crashed |-> FALSE]
             ELSE [mem |-> [i \in 1..Len(mem) |->
                               IF ptr < i /\ i <= reach THEN 0 ELSE looped[i]],
                   second |-> [len |-> Huge],
                   crashed |-> TRUE]

\* secure_wipe on a buffer alone: its bytes afterwards, and whether the
\* process died in the second wipe.
secure_wipe(buf, glibc) ==
    LET r == secure_wipe_bytes(buf, 0, Len(buf), IF glibc THEN "glibc" ELSE "other", Len(buf))
    IN  [buf |-> r.mem, crashed |-> r.crashed]

\* feature_vector_free: the feature array is wiped, then released.
feature_vector_free(vector, glibc) == secure_wipe(vector.features, glibc)

\* cmd_test: features are extracted from a recording of two seconds and
\* freed when extraction succeeded; then a salt is drawn into an array on
\* the stack, whose earlier content is stack. The result holds what the
\* feature array and the stack array contain when the function is left.
cmd_test(sig, ok, stack, seed, salt_ok, glibc) ==
    LET ex == extract_features(sig, feature_vector_alloc(FEATURE_VECTOR_SIZE), ok)
        fr == feature_vector_free(ex.out, glibc)
        gs == generate_salt(stack, SALT_LENGTH, seed, salt_ok)
    IN  IF ex.ret = 0 /\ fr.crashed
        THEN [ret |-> 0, crashed |-> TRUE, features |-> fr.buf, salt |-> stack]
        ELSE [ret |-> 0, crashed |-> FALSE,
              features |-> IF ex.ret = 0 THEN fr.buf ELSE ex.out.features,
              salt |-> gs.salt]

TestRun ==
    /\ calls.stage = "start"
    /\ \E sig \in Signals \ {0}, ok \in BOOLEAN, seed \in Seeds, salt_ok \in BOOLEAN,
          glibc \in BOOLEAN, stack \in {Zeros(SALT_LENGTH), Urandom(MaxSeed + 1)} :
          calls' = [stage |-> "test", sig |-> sig, glibc |-> glibc, salt_ok |-> salt_ok,
                    r |-> cmd_test(sig, ok, stack, seed, salt_ok, glibc)]
    /\ UNCHANGED <<store, match, fs, procs>>

\* extract_band_power on a recording of eight or nine channels and an
\* output vector that is fresh or holds earlier values.  r is what the call
\* leaves in the output vector, overrun the number of slots it stored past
\* the end of it.
BandPowerRun ==
    /\ calls.stage = "start"
    /\ \E sig \in Signals, output \in AverageOutputs,
          num_channels \in {NUM_CHANNELS, NUM_CHANNELS + 1} :
          calls' = [stage |-> "band", sig |-> sig, output |-> output,
                    num_channels |-> num_channels,
                    r |-> extract_band_power(sig, output),
                    overrun |-> Max(0, feature_idx(num_channels, sig) - output.size)]
    /\ UNCHANGED <<store, match, fs, procs>>

\* A name of USERNAME_SIZE characters ending in c: one more than the
\* username field can keep.
LongName(c) == [i \in 1..USERNAME_SIZE |-> IF i = USERNAME_SIZE THEN c ELSE 97]

\* Usernames given on the command line: a short one, the longest that
\* fits, and two that do not fit and differ in their last character.
CreateNames ==
    {UserName(1), Take(LongName(98), USERNAME_SIZE - 1), LongName(98), LongName(99)}

\* template_create for two usernames on the same recordings, and the
\* template_free cmd_enroll then makes on the first template.
CreateRun ==
    /\ calls.stage = "start"
    /\ \E name1 \in CreateNames, name2 \in CreateNames, fail \in CreateFailures :
          calls' = [stage |-> "create", name1 |-> name1, name2 |-> name2, fail |-> fail,
                    r1 |-> template_create(name1, <<1, 1, 1>>, NUM_ENROLMENT_TRIALS,
                               TASK_EYES_CLOSED_REST, template_alloc,
                               [fail |-> fail, seed |-> 0, now |-> 1]),
                    free1 |-> template_free(
                               template_create(name1, <<1, 1, 1>>, NUM_ENROLMENT_TRIALS,
                                   TASK_EYES_CLOSED_REST, template_alloc,
                                   [fail |-> fail, seed |-> 0, now |-> 1]).out),
                    r2 |-> template_create(name2, <<1, 1, 1>>, NUM_ENROLMENT_TRIALS,
                               TASK_EYES_CLOSED_REST, template_alloc,
                               [fail |-> "none", seed |-> 1, now |-> 1])]
    /\ UNCHANGED <<store, match, fs, procs>>

\* Channels of three samples: constant ones among them.
NormalizeChannels == [1..3 -> {0, One, 5 * One}]

\* normalize_signal on a recording of two channels.
NormalizeRun ==
    /\ calls.stage = "start"
    /\ \E data \in [1..2 -> NormalizeChannels] :
          calls' = [stage |-> "normalize", data |-> data,
                    r |-> [ch \in 1..2 |-> normalize_channel(data[ch])]]
    /\ UNCHANGED <<store, match, fs, procs>>

\* The magnitudes compute_fft leaves for a channel whose energy is all in
\* bin k.
Spectrum(k) == [i \in 1..(WINDOW_SIZE \div 2) |-> IF i = k + 1 THEN One ELSE 0]

\* The five band loops on such a spectrum, at a sampling rate.
BandBinsRun ==
    /\ calls.stage = "start"
    /\ \E k \in 0..(WINDOW_SIZE \div 2 - 1), rate \in {SAMPLING_RATE, 2 * SAMPLING_RATE} :
          calls' = [stage |-> "bins", k |-> k, rate |-> rate,
                    power |-> [b \in 1..NUM_FREQUENCY_BANDS |->
                                  band_power(Spectrum(k), b, rate)]]
    /\ UNCHANGED <<store, match, fs, procs>>

\* Bytes of memory around a buffer: none of them zero.
WipeMemory == [i \in 1..6 |-> 16 * i + 1]

\* secure_wipe on a buffer inside WipeMemory.
WipeRun ==
    /\ calls.stage = "start"
    /\ \E ptr \in 0..2, size \in 0..3, platform \in Platforms :
       \E reach \in (ptr + size)..Len(WipeMemory) :
          calls' = [stage |-> "wipe", ptr |-> ptr, size |-> size, platform |-> platform,
                    r |-> secure_wipe_bytes(WipeMemory, ptr, size, platform, reach)]
    /\ UNCHANGED <<store, match, fs, procs>>

UnitNext ==
    \/ CompareRun
    \/ AverageRun
    \/ ExtractRun
    \/ BandPowerRun
    \/ TestRun
    \/ CreateRun
    \/ NormalizeRun
    \/ BandBinsRun
    \/ WipeRun

SpecUnit == Init /\ [][UnitNext]_vars

(***************************************************************************)
(* SpecCapture: the capture device and the sample buffers of one trial.    *)
(*   calls.status   the static device_status                               *)
(*   calls.name     the static device_name                                 *)
(*   calls.trial    the EEGData a command holds: NULL or its data pointer  *)
(*   calls.heap     sample buffers: live, wiped at their free, and the     *)
(*                  number the next allocation gets                        *)
(*   calls.last     the last call, its result and the status before it     *)
(***************************************************************************)
DeviceInit ==
    [stage |-> "device", status |-> "DISCONNECTED", name |-> [str |-> ""], trial |-> NULL,
     heap |-> [live |-> {}, wiped |-> {}, next |-> 1], last |-> NULL]

capture_init(dev) == [ret |-> 0, dev |-> [dev EXCEPT !.status = "DISCONNECTED"]]

capture_connect(dev, dev_name) ==
    IF dev_name = NULL THEN [ret |-> -1, dev |-> dev]
    ELSE [ret |-> 0, dev |-> [status |-> "CONNECTED", name |-> dev_name]]

\* capture_stop_streaming without its test of the status.
capture_stop_streaming_unguarded(dev) ==
    [ret |-> 0, dev |-> [dev EXCEPT !.status = "CONNECTED"]]

capture_start_streaming(dev) ==
    IF dev.status # "CONNECTED" THEN [ret |-> -1, dev |-> dev]
    ELSE [ret |-> 0, dev |-> [dev EXCEPT !.status = "STREAMING"]]

capture_stop_streaming(dev) ==
    IF dev.status # "STREAMING" THEN [ret |-> -1, dev |-> dev]
    ELSE [ret |-> 0, dev |-> [dev EXCEPT !.status = "CONNECTED"]]

\* eeg_data_alloc: ok = FALSE when malloc or calloc fails.
eeg_data_alloc(heap, ok) ==
    IF ~ok THEN [data |-> NULL, heap |-> heap]
    ELSE [data |-> [data |-> heap.next],
          heap |-> [heap EXCEPT !.live = @ \cup {heap.next}, !.next = @ + 1]]

\* eeg_data_free: the sample buffer is wiped and freed, then the structure.
eeg_data_free(heap, data) ==
    IF data = NULL THEN heap
    ELSE [heap EXCEPT !.live = @ \ {data.data}, !.wiped = @ \cup {data.data}]

\* capture_record(duration, task, output): the recording is made in a new
\* EEGData, whose fields, data pointer included, are then copied over
\* *output; the new structure is freed, its buffer lives on in output.
capture_record(dev, output, heap, ok) ==
    IF output = NULL \/ dev.status # "STREAMING" THEN [ret |-> -1, output |-> output, heap |-> heap]
    ELSE LET data == eeg_data_alloc(heap, ok)
         IN  IF data.data = NULL THEN [ret |-> -1, output |-> output, heap |-> heap]
             ELSE [ret |-> 0, output |-> [data |-> data.data.data], heap |-> data.heap]

capture_disconnect(dev) ==
    LET stopped == IF dev.status = "STREAMING" THEN capture_stop_streaming(dev).dev ELSE dev
    IN  [ret |-> 0, dev |-> [stopped EXCEPT !.status = "DISCONNECTED", !.name = [str |-> ""]]]

capture_cleanup(dev) ==
    IF dev.status # "DISCONNECTED" THEN [ret |-> 0, dev |-> capture_disconnect(dev).dev]
    ELSE [ret |-> 0, dev |-> dev]

\* The device part of the state.
Device == [status |-> calls.status, name |-> calls.name]

\* The state after the device call op returned r.
DeviceCalled(op, r) ==
    [calls EXCEPT !.status = r.dev.status, !.name = r.dev.name,
                  !.last = [op |-> op, ret |-> r.ret, before |-> calls.status]]

CaptureInitCall ==
    /\ calls' = DeviceCalled("capture_init", capture_init(Device))
    /\ UNCHANGED <<store, match, fs, procs>>

CaptureConnect ==
    /\ \E dev_name \in {NULL, [str |-> "simulated"]} :
          calls' = DeviceCalled("capture_connect", capture_connect(Device, dev_name))
    /\ UNCHANGED <<store, match, fs, procs>>

CaptureStart ==
    /\ calls' = DeviceCalled("capture_start_streaming", capture_start_streaming(Device))
    /\ UNCHANGED <<store, match, fs, procs>>

CaptureStop ==
    /\ calls' = DeviceCalled("capture_stop_streaming", capture_stop_streaming(Device))
    /\ UNCHANGED <<store, match, fs, procs>>

CaptureDisconnect ==
    /\ calls' = DeviceCalled("capture_disconnect", capture_disconnect(Device))
    /\ UNCHANGED <<store, match, fs, procs>>

CaptureCleanup ==
    /\ calls' = DeviceCalled("capture_cleanup", capture_cleanup(Device))
    /\ UNCHANGED <<store, match, fs, procs>>

\* A command allocates the EEGData of a trial.
TrialAlloc ==
    /\ calls.trial = NULL
    /\ calls.heap.next <= MaxBuffers
    /\ \E ok \in BOOLEAN :
          calls' = [calls EXCEPT !.trial = eeg_data_alloc(calls.heap, ok).data,
                                 !.heap = eeg_data_alloc(calls.heap, ok).heap]
    /\ UNCHANGED <<store, match, fs, procs>>

\* capture_record into the EEGData of the trial.
CaptureRecord ==
    /\ calls.heap.next <= MaxBuffers
    /\ \E ok \in BOOLEAN :
          calls' = [calls EXCEPT
                      !.trial = capture_record(Device, calls.trial, calls.heap, ok).output,
                      !.heap = capture_record(Device, calls.trial, calls.heap, ok).heap,
                      !.last = [op |-> "capture_record",
                                ret |-> capture_record(Device, calls.trial, calls.heap, ok).ret,
                                before |-> calls.status]]
    /\ UNCHANGED <<store, match, fs, procs>>

\* The command frees the EEGData of the trial, as it does on every path
\* once it holds one.
TrialFree ==
    /\ calls.trial # NULL
    /\ calls' = [calls EXCEPT !.trial = NULL,
                              !.heap = eeg_data_free(calls.heap, calls.trial)]
    /\ UNCHANGED <<store, match, fs, procs>>

CaptureNext ==
    \/ CaptureInitCall
    \/ CaptureConnect
    \/ CaptureStart
    \/ CaptureStop
    \/ CaptureRecord
    \/ CaptureDisconnect
    \/ CaptureCleanup
    \/ TrialAlloc
    \/ TrialFree

\* The state when the program starts: the statics of capture.c as they are
\* initialised, no trial held.
DeviceStart ==
    /\ store = StoreInit
    /\ match = MatchInit
    /\ fs = FsInit
    /\ procs = [p \in Procs |-> ProcInit]
    /\ calls = DeviceInit

SpecCapture == DeviceStart /\ [][CaptureNext]_vars

(***************************************************************************)
(* Claims on the store (SpecStore).                                        *)
(***************************************************************************)
\* The whole of the created template reached the file.
SavedComplete ==
    /\ store.stage \in {"saved", "loaded"}
    /\ store.file = File(SaveBuffer(store.create.out))

\* The file is a template cut short: a proper prefix of what save wrote.
SavedTruncated ==
    /\ store.stage \in {"saved", "loaded"}
    /\ store.file.exists
    /\ Len(store.file.data) < Len(SaveBuffer(store.create.out))

\* C1: loading a completely saved template (no allocation failing) returns
\* success and gives back the username, the task label, the feature
\* vector, the hash bytes and the salt bytes that were saved.
C1_RoundTrip ==
    (store.stage = "loaded" /\ SavedComplete /\ store.env.alloc = "none")
    => /\ store.load.ret = 0
       /\ store.load.out.username = store.create.out.username
       /\ store.load.out.task_type = store.create.out.task_type
       /\ store.load.out.features = store.create.out.features
       /\ store.load.out.hash.hash = store.create.out.hash.hash
       /\ store.load.out.hash.salt = store.create.out.hash.salt

\* C3: template_load of a truncated file returns an error.
C3_TruncatedRejected ==
    (store.stage = "loaded" /\ SavedTruncated) => store.load.ret # 0

\* C10: when template_create succeeds, the digest is the digest of the
\* bytes of the averaged feature vector followed by the salt, the salt is
\* what generate_salt drew in that call, and digest and salt have the
\* lengths HASH_OUTPUT_SIZE and SALT_LENGTH.
C10_HashRecord ==
    (store.stage # "start" /\ store.create.ret = 0)
    => LET t == store.create.out
           mean == [j \in 1..FEATURE_VECTOR_SIZE |->
                      RoundDiv(BandPower(store.in.trials[1])[j]
                               + BandPower(store.in.trials[2])[j]
                               + BandPower(store.in.trials[3])[j],
                               NUM_ENROLMENT_TRIALS)]
       IN  /\ t.features.features = mean
           /\ t.hash.salt = Urandom(store.in.seed)
           /\ t.hash.hash = SHA256(FloatsBytes(mean) \o Urandom(store.in.seed))
           /\ t.hash.hash_size = HASH_OUTPUT_SIZE
           /\ t.hash.salt_size = SALT_LENGTH
           /\ Len(t.hash.hash) = HASH_OUTPUT_SIZE
           /\ Len(t.hash.salt) = SALT_LENGTH

\* A template created from trials that differ, for a nonzero seed.
C10_Witness ==
    /\ store.stage = "created"
    /\ store.create.ret = 0
    /\ store.in.trials[1] # store.in.trials[2]
    /\ store.in.seed > 0

\* The digest of the feature vector and salt a template holds, made anew.
Recomputed(t) ==
    hash_features(t.features, t.hash.salt, t.hash.salt_size,
                  hash_data_alloc(HASH_OUTPUT_SIZE, t.hash.salt_size), TRUE).out

\* C11: for a file that was saved whole and not modified, the digest
\* recomputed from the loaded feature vector and the loaded salt compares
\* equal to the loaded stored digest.
C11_UnmodifiedVerifies ==
    (store.stage = "loaded" /\ SavedComplete /\ store.load.ret = 0)
    => hash_compare(Recomputed(store.load.out), store.load.out.hash).ret = 1

(***************************************************************************)
(* Claims on the matcher (SpecMatch).                                      *)
(***************************************************************************)
\* The comparison of v1 and v2 is one calculate_similarity can make: equal
\* lengths and neither magnitude below 1e-6.
Comparable(v1, v2) ==
    /\ v1.size = v2.size
    /\ ~Tiny(vector_magnitude(v1.features, v1.size))
    /\ ~Tiny(vector_magnitude(v2.features, v2.size))

\* C6: when the comparison succeeds, template_authenticate returns 0 with
\* the similarity as score, attempts = 1, and authenticated set exactly
\* when the score is at least 0.85.
C6_Decision ==
    (match.stage = "auth" /\ match.env.fail = "none"
       /\ Comparable(FeaturesOf(match.trial), match.t1.features))
    => /\ match.r1.ret = 0
       /\ match.r1.result.similarity_score =
             calculate_similarity(FeaturesOf(match.trial), match.t1.features)
       /\ match.r1.result.attempts = 1
       /\ match.r1.result.authenticated \in {0, 1}
       /\ (match.r1.result.authenticated = 1
             <=> 20 * match.r1.result.similarity_score >= 17 * One)

\* A rejection with a low score, returned as success.
C6_Witness ==
    /\ match.stage = "auth"
    /\ match.env.fail = "none"
    /\ Comparable(FeaturesOf(match.trial), match.t1.features)
    /\ match.r1.ret = 0
    /\ match.r1.result.authenticated = 0
    /\ match.r1.result.similarity_score > 0

\* C7: calculate_similarity returns the failure value exactly when the
\* lengths differ or a magnitude is below 1e-6, and a value in [0, 1]
\* otherwise.
C7_SentinelOrUnit ==
    match.stage = "sim"
    => IF Comparable(match.vec1, match.vec2)
       THEN 0 <= match.sim /\ match.sim <= One
       ELSE match.sim = SimFailed

\* A comparison whose quotient, as rounded, is above 1 and is returned as 1.
C7_Witness ==
    /\ match.stage = "sim"
    /\ Comparable(match.vec1, match.vec2)
    /\ RoundDiv(dot_product(match.vec1.features, match.vec2.features, match.vec1.size)
                  * One * One,
                vector_magnitude(match.vec1.features, match.vec1.size)
                  * vector_magnitude(match.vec2.features, match.vec2.size)) > One
    /\ match.sim = One

\* C9: two templates with the same feature vector and different hash or
\* salt bytes give the same accepted flag and the same score on one trial.
C9_HashIndependent ==
    (match.stage = "auth" /\ match.t1.features = match.t2.features
       /\ match.t1.hash # match.t2.hash)
    => /\ match.r1.ret = match.r2.ret
       /\ match.r1.result.authenticated = match.r2.result.authenticated
       /\ match.r1.result.similarity_score = match.r2.result.similarity_score

\* An accepted trial against two templates whose seals differ.
C9_Witness ==
    /\ match.stage = "auth"
    /\ match.t1.hash.hash = match.t2.hash.hash
    /\ match.t1.hash.salt # match.t2.hash.salt
    /\ match.r1.ret = 0
    /\ match.r1.result.authenticated = 1
    /\ match.r2.result.authenticated = 1

\* C22: when calculate_similarity fails (lengths differ, or a magnitude is
\* below 1e-6) template_authenticate returns an error, not success with a
\* rejection and score -1.
C22_FailedComparisonIsError ==
    (match.stage = "auth" /\ match.env.fail = "none"
       /\ ~Comparable(FeaturesOf(match.trial), match.t1.features))
    => match.r1.ret # 0

(***************************************************************************)
(* Claims on the commands (SpecSolo, Spec).                                *)
(***************************************************************************)
\* The templates an enrolment here can create.
Enrolments ==
    { template_create(UserName(u), <<sig, sig, sig>>, NUM_ENROLMENT_TRIALS,
                      TASK_EYES_CLOSED_REST, template_alloc,
                      [fail |-> "none", seed |-> seed, now |-> now]).out :
          u \in Users, sig \in Signals \ {0}, seed \in Seeds, now \in Times }

StoredForms == { SaveBuffer(t) : t \in Enrolments }

\* The path holds every byte of some template.
Complete(file) == file.exists /\ file.data \in StoredForms

\* C2: whenever no save is under way, each template path holds no file or
\* a complete template, whatever crash or short write a save met.
C2_AtomicSave ==
    (\A p \in Procs : procs[p].pc # "write")
    => \A u \in Users : ~fs[u].exists \/ Complete(fs[u])

\* C4: an enrolment that began with the username absent and ended in
\* failure leaves no file at the path, and one that returned 0 leaves a
\* complete template there.
C4_EnrollLeavesAbsent ==
    \A p \in Procs :
        (procs[p].pc \in {"done", "crashed"} /\ procs[p].cmd = "enroll")
        => IF procs[p].pc = "crashed" THEN ~fs[procs[p].user].exists
           ELSE IF procs[p].ret = 0 THEN Complete(fs[procs[p].user])
           ELSE procs[p].outcome = "exists" \/ ~fs[procs[p].user].exists

\* C5: no two processes are inside template_save for the same username at
\* once, and no template_load read a file while a template_save had it
\* open.
C5_Serialized ==
    /\ \A p \in Procs, q \in Procs :
          (p # q /\ procs[p].pc = "write" /\ procs[q].pc = "write")
          => procs[p].user # procs[q].user
    /\ \A p \in Procs :
          (procs[p].pc \in {"capture", "match"} /\ procs[p].cmd = "authenticate")
          => procs[p].racing = {}

\* C8: the value cmd_authenticate returns for a rejection against a
\* complete stored template differs from the value it returns when the
\* user is not enrolled, the load failed or the capture failed.
C8_DistinctStatus ==
    \A p \in Procs, q \in Procs :
        (/\ procs[p].pc = "done" /\ procs[p].cmd = "authenticate"
         /\ procs[q].pc = "done" /\ procs[q].cmd = "authenticate"
         /\ procs[p].outcome = "rejected"
         /\ Complete(fs[procs[p].user])
         /\ procs[q].outcome \in {"not_enrolled", "load_failed", "capture_failed"})
        => procs[p].ret # procs[q].ret

\* C20: cmd_enroll for a username whose template file exists returns -1
\* straight from the check, with no capture and no save, and every file is
\* left as it was; and no step other than a delete changes a path that holds
\* a complete template, so a username never gets a second template.
C20_OnePerUser ==
    [][/\ \A p \in Procs :
            (/\ At(p, "enroll", "check")
             /\ fs[procs[p].user].exists
             /\ procs'[p] # procs[p])
            => /\ procs'[p].pc = "done"
               /\ procs'[p].ret = -1
               /\ fs' = fs
       /\ \A u \in Users :
            Complete(fs[u]) => (fs'[u] = fs[u] \/ ~fs'[u].exists)]_vars

\* An enrolment turned away because a complete template is stored under
\* the username.
C20_Witness ==
    \E p \in Procs :
        /\ procs[p].pc = "done" /\ procs[p].cmd = "enroll"
        /\ procs[p].outcome = "exists" /\ procs[p].ret = -1
        /\ Complete(fs[procs[p].user])

\* C21: cmd_enroll gets to template_save only from a template_create that
\* returned success on NUM_ENROLMENT_TRIALS captured recordings, and an
\* enrolment that ends at the capture or at template_create returns -1 and
\* leaves every file as it was.
C21_SaveAfterAllTrials ==
    [][\A p \in Procs :
          /\ (procs'[p].pc = "save" /\ procs[p].pc # "save")
                => /\ At(p, "enroll", "create")
                   /\ Len(procs[p].trials) = NUM_ENROLMENT_TRIALS
                   /\ procs'[p].template \in Enrolments
                   /\ fs' = fs
          /\ (procs'[p].pc = "done" /\ procs[p].pc \in {"capture", "create"}
               /\ procs[p].cmd = "enroll")
                => /\ procs'[p].ret = -1
                   /\ fs' = fs]_vars

\* An enrolment ended by a failing template_create, with nothing stored
\* under the username.
C21_Witness ==
    \E p \in Procs :
        /\ procs[p].pc = "done" /\ procs[p].cmd = "enroll"
        /\ procs[p].outcome = "create_failed" /\ procs[p].ret = -1
        /\ ~fs[procs[p].user].exists

C12_CompareAllPairs ==
    (calls.stage = "compare" /\ calls.hash2 # NULL)
    => IF calls.hash1.hash_size = calls.hash2.hash_size
       THEN /\ calls.r.iters = calls.hash1.hash_size
            /\ (calls.r.ret = 1 <=> calls.hash1.hash = calls.hash2.hash)
            /\ calls.r.ret \in {0, 1}
       ELSE calls.r.ret = 0

\* Two digests that differ in one bit of their first byte, compared.
C12_Witness ==
    /\ calls.stage = "compare"
    /\ calls.hash2 # NULL
    /\ calls.hash1.hash_size = calls.hash2.hash_size
    /\ calls.hash2.hash = FlipBit(calls.hash1.hash, 1, 0)
    /\ calls.r.ret = 0
    /\ calls.r.iters = HASH_OUTPUT_SIZE

\* The vectors of the call do not all have the length of the first.
LengthsDiffer(vectors) == \E i \in 1..Len(vectors) : vectors[i].size # vectors[1].size

\* C13: average_feature_vectors returns an error when N = 0 or a vector's
\* length differs from the first one's, and then the output vector is as
\* it was before the call.
C13_AverageRejects ==
    (calls.stage = "average" /\ (Len(calls.vectors) = 0 \/ LengthsDiffer(calls.vectors)))
    => /\ calls.r.ret # 0
       /\ calls.r.out = calls.output

\* A call with three vectors, the last of another length, into an output
\* that held other values.
C13_Witness ==
    /\ calls.stage = "average"
    /\ Len(calls.vectors) = NUM_ENROLMENT_TRIALS
    /\ calls.vectors[1].size = calls.vectors[2].size
    /\ calls.vectors[3].size # calls.vectors[1].size
    /\ calls.output.features[1] # 0
    /\ calls.r.ret = -1

\* C14: for N >= 1 vectors of one length L, average_feature_vectors returns
\* success, sets the output length to L and element j to the sum of the
\* j-th elements divided by N; for N = 1 the output is the input vector.
C14_AverageIsMean ==
    (calls.stage = "average" /\ Len(calls.vectors) >= 1 /\ ~LengthsDiffer(calls.vectors))
    => LET n == Len(calls.vectors)
           L == calls.vectors[1].size
       IN  /\ calls.r.ret = 0
           /\ calls.r.out.size = L
           /\ \A j \in 1..L :
                 calls.r.out.features[j] =
                    RoundDiv(SumAt(calls.vectors, j, 1), n)
           /\ n = 1 => Take(calls.r.out.features, L) = calls.vectors[1].features

\* Three vectors of one length, not all the same, averaged.
C14_Witness ==
    /\ calls.stage = "average"
    /\ Len(calls.vectors) = NUM_ENROLMENT_TRIALS
    /\ ~LengthsDiffer(calls.vectors)
    /\ calls.vectors[1] # calls.vectors[2]
    /\ calls.r.ret = 0
    /\ calls.r.out.features[1] # calls.vectors[1].features[1]

\* C15: every stage that is not implemented (band-pass filter, notch
\* filter, artifact rejection, wavelet features, the other hash primitive,
\* template update) returns a failure, and extract_features, whose
\* preprocessing is made of such stages, returns a failure too.
C15_StubsFail ==
    (calls.stage = "extract" /\ calls.ok)
    => /\ calls.stages.bandpass # 0
       /\ calls.stages.notch # 0
       /\ calls.stages.artifacts # 0
       /\ calls.stages.wavelet # 0
       /\ calls.stages.blake3 # 0
       /\ calls.stages.update # 0
       /\ calls.first.ret # 0

\* C16: when cmd_test is left, the buffer that held the feature values and
\* the buffer that held the salt contain only zeros.
C16_WipedOnExit ==
    (calls.stage = "test" /\ ~calls.r.crashed)
    => /\ calls.r.features = Zeros(FEATURE_VECTOR_SIZE)
       /\ calls.r.salt = Zeros(SALT_LENGTH)

\* C17: template_create rejects a username of more than 63 characters, and
\* the templates it makes for two different usernames never carry the same
\* stored username.
C17_LongNameRejected ==
    calls.stage = "create"
    => /\ Len(calls.name1) > USERNAME_SIZE - 1 => calls.r1.ret # 0
       /\ (calls.name1 # calls.name2 /\ calls.r1.ret = 0 /\ calls.r2.ret = 0)
             => calls.r1.out.username # calls.r2.out.username

C19_ShortIsZero ==
    (calls.stage = "band" /\ calls.sig = 0)
    => /\ calls.r.ret = 0
       /\ \A j \in 1..FEATURE_VECTOR_SIZE : calls.r.out.features[j] = 0

\* C29: extract_band_power stores no feature slot at an index at or above
\* output->size, whatever the number of channels of the recording.
C29_SlotsWithinOutput ==
    calls.stage = "band" => calls.overrun = 0

\* C23: normalize_signal leaves the samples of a channel whose deviation is
\* below the guard as they were, rewrites every other channel to
\* (x - mean) / std_dev, and never divides by less than the guard.
C23_FlatChannelKept ==
    calls.stage = "normalize"
    => \A ch \in 1..2 :
          LET sd == calculate_std_dev(calls.data[ch])
          IN  /\ Tiny(sd) => calls.r[ch].samples = calls.data[ch]
              /\ ~Tiny(sd) =>
                    calls.r[ch].samples =
                       [i \in 1..3 |->
                           RoundDiv((calls.data[ch][i] - calculate_mean(calls.data[ch])) * One, sd)]
              /\ ~Tiny(calls.r[ch].divisor)

\* C24: the power of band b sums exactly the bins whose frequency
\* k * sampling_rate / WINDOW_SIZE lies in the band's range, so the energy
\* of one bin goes to the band holding its frequency and to no other band,
\* and the energy of a bin outside every band (bin 0, at 0 Hz) goes nowhere.
C24_BinsInBand ==
    calls.stage = "bins"
    => \A b \in 1..NUM_FREQUENCY_BANDS :
          calls.power[b] =
             IF /\ BandEdges[b].low * WINDOW_SIZE <= 2 * calls.k * calls.rate
                /\ 2 * calls.k * calls.rate < BandEdges[b].high * WINDOW_SIZE
             THEN One ELSE 0

\* C26: secure_wipe(ptr, size) leaves zero in the bytes ptr[0..size-1],
\* changes no byte outside them, and the length it gives a second wipe after
\* the loop is the size it was called with.
C26_WipesExactly ==
    calls.stage = "wipe"
    => /\ \A i \in 1..Len(WipeMemory) :
             calls.r.mem[i] =
                IF calls.ptr < i /\ i <= calls.ptr + calls.size THEN 0 ELSE WipeMemory[i]
       /\ calls.r.second # NULL => calls.r.second.len = calls.size

\* C27: the template_free that follows template_create in cmd_enroll frees
\* no feature vector and no hash record that template_create's own cleanup
\* had freed, whichever call inside template_create failed.
C27_NoDoubleFree ==
    calls.stage = "create" => calls.free1.twice = {}

(***************************************************************************)
(* Claims on the capture device (SpecCapture).                             *)
(***************************************************************************)
\* C28: capture_start_streaming succeeds only from CONNECTED,
\* capture_stop_streaming and capture_record only from STREAMING, a call
\* that fails leaves the status as it was, and after capture_cleanup or
\* capture_disconnect the status is DISCONNECTED.
C28_StatusMachine ==
    calls.last # NULL
    => /\ (calls.last.op = "capture_start_streaming" /\ calls.last.ret = 0)
             => calls.last.before = "CONNECTED"
       /\ (calls.last.op \in {"capture_stop_streaming", "capture_record"}
           /\ calls.last.ret = 0)
             => calls.last.before = "STREAMING"
       /\ calls.last.ret # 0 => calls.status = calls.last.before
       /\ calls.last.op \in {"capture_cleanup", "capture_disconnect"}
             => calls.status = "DISCONNECTED"

\* capture_stop_streaming refused on a device that is connected and not
\* streaming.
C28_Witness ==
    /\ calls.last # NULL
    /\ calls.last.op = "capture_stop_streaming"
    /\ calls.last.ret = -1
    /\ calls.last.before = "CONNECTED"
    /\ calls.status = "CONNECTED"

\* C30: once the command has freed the EEGData of its trial, every sample
\* buffer allocated for it has been wiped and freed: capture_record leaves
\* none behind.
C30_BuffersFreed ==
    calls.trial = NULL => calls.heap.live = {}

=============================================================================
